---- MODULE Spec2Model ----
(***************************************************************************)
(* A model of codado/py.py: the fromdir path resolver (construction, the   *)
(* path-join call, the working-directory scope) and the Documentation      *)
(* docstring views.  Strings are sequences of one-character strings, so    *)
(* that joining, normalising and folding are computed character by         *)
(* character as posixpath / re / str compute them.                         *)
(***************************************************************************)
EXTENDS Integers, Sequences, FiniteSets, TLC

(***************************************************************************)
(* Bounds of the model.                                                    *)
(***************************************************************************)
\* the largest number of fragments given to fromdir(...)
MaxFrags == 2
\* the deepest nesting of "with" blocks
MaxDepth == 2
\* the longest docstring text
MaxRaw == 3

(***************************************************************************)
(* Characters and string helpers.                                          *)
(***************************************************************************)
SEP == "/"
NL == "\n"
SP == " "
\* '\v', the placeholder of Documentation.full (a distinct one-character token)
VT == "\\v"

Empty == <<>>
Dot == <<".">>
DotDot == <<".", ".">>

StartsWith(s, c) == Len(s) > 0 /\ s[1] = c

EndsWith(s, c) == Len(s) > 0 /\ s[Len(s)] = c

RECURSIVE RStrip(_, _)
RStrip(s, c) == IF EndsWith(s, c) THEN RStrip(SubSeq(s, 1, Len(s) - 1), c) ELSE s

\* s is made of the character c only ('/' * len(s))
AllChar(s, c) == \A i \in 1..Len(s) : s[i] = c

\* str.find(c, from): the first index >= from (1-based) holding c, or 0
Find(s, c, from) ==
    LET hits == {i \in from..Len(s) : s[i] = c}
    IN IF hits = {} THEN 0 ELSE CHOOSE i \in hits : \A j \in hits : i <= j

\* str.rfind(c): the last index (1-based) holding c, or 0
RFind(s, c) ==
    LET hits == {i \in 1..Len(s) : s[i] = c}
    IN IF hits = {} THEN 0 ELSE CHOOSE i \in hits : \A j \in hits : i >= j

\* str.split(c): the pieces between the occurrences of c (always at least one)
RECURSIVE Split(_, _)
Split(s, c) ==
    LET i == Find(s, c, 1)
    IN IF i = 0 THEN <<s>>
       ELSE <<SubSeq(s, 1, i - 1)>> \o Split(SubSeq(s, i + 1, Len(s)), c)

\* c.join(pieces)
RECURSIVE JoinWith(_, _)
JoinWith(pieces, c) ==
    IF pieces = <<>> THEN Empty
    ELSE IF Len(pieces) = 1 THEN pieces[1]
    ELSE pieces[1] \o <<c>> \o JoinWith(Tail(pieces), c)

(***************************************************************************)
(* The filesystem and the process environment the program runs in.         *)
(***************************************************************************)
Root == <<"/">>
DirA == <<"/", "a">>
DirB == <<"/", "b">>
FileF == <<"/", "f">>
FileAF == <<"/", "a", "/", "f">>

\* the existing directories and the existing regular files
Dirs == {Root, DirA, DirB}
Files == {FileF, FileAF}

\* $HOME
Home == DirA

\* the fragment tuples of a program that works with two resolvers at once
FewPaths == { <<<<"~">>>>, <<Root>>, <<<<"/", "x">>>> }

\* the fragments a caller passes to fromdir(...)
Fragments ==
    { Empty, <<"a">>, <<"f">>, DotDot, FileAF, <<"~">>, <<"/", "/", "a">> }

\* the argument tuples a caller passes to the resolver's call
ArgTuples == { <<>>, <<<<"f">>>>, <<<<"a">>, <<"f">>>>, <<DirA>> }

\* the argument tuples of a program that works with two resolvers at once
FewArgs == { <<>>, <<<<"f">>>> }

RECURSIVE SeqsUpTo(_, _)
SeqsUpTo(S, n) ==
    IF n = 0 THEN {<<>>}
    ELSE LET shorter == SeqsUpTo(S, n - 1)
         IN shorter \cup {Append(q, x) : q \in {t \in shorter : Len(t) = n - 1}, x \in S}

(***************************************************************************)
(* posixpath, as the resolver uses it.                                     *)
(***************************************************************************)
\* os.path.join(a, b) for one further component
Join2(a, b) ==
    IF StartsWith(b, SEP) THEN b
    ELSE IF a = Empty \/ EndsWith(a, SEP) THEN a \o b
    ELSE a \o <<SEP>> \o b

\* os.path.join(a, *p)
RECURSIVE Join(_, _)
Join(a, p) == IF p = <<>> THEN a ELSE Join(Join2(a, Head(p)), Tail(p))

\* the loop of os.path.normpath over the components
RECURSIVE NormFold(_, _, _)
NormFold(comps, acc, initial) ==
    IF comps = <<>> THEN acc
    ELSE LET comp == Head(comps)
             rest == Tail(comps)
         IN IF comp = Empty \/ comp = Dot THEN NormFold(rest, acc, initial)
            ELSE IF \/ comp # DotDot
                    \/ (initial = 0 /\ acc = <<>>)
                    \/ (acc # <<>> /\ acc[Len(acc)] = DotDot)
                 THEN NormFold(rest, Append(acc, comp), initial)
            ELSE IF acc # <<>>
                 THEN NormFold(rest, SubSeq(acc, 1, Len(acc) - 1), initial)
            ELSE NormFold(rest, acc, initial)

\* the number of leading slashes os.path.normpath keeps: 0, 1, or 2 for exactly two
InitialSlashes(path) ==
    IF ~StartsWith(path, SEP) THEN 0
    ELSE IF Len(path) >= 2 /\ path[2] = SEP /\ ~(Len(path) >= 3 /\ path[3] = SEP) THEN 2
    ELSE 1

\* os.path.normpath
Normpath(path) ==
    IF path = Empty THEN Dot
    ELSE LET initial == InitialSlashes(path)
             body == JoinWith(NormFold(Split(path, SEP), <<>>, initial), SEP)
             out == [i \in 1..initial |-> SEP] \o body
         IN IF out = Empty THEN Dot ELSE out

\* os.path.abspath, with the process working directory cwd
Abspath(path, cwd) ==
    IF StartsWith(path, SEP) THEN Normpath(path) ELSE Normpath(Join2(cwd, path))

\* os.path.dirname
Dirname(p) ==
    LET head == SubSeq(p, 1, RFind(p, SEP))
    IN IF head # Empty /\ ~AllChar(head, SEP) THEN RStrip(head, SEP) ELSE head

\* pwd.getpwnam(name).pw_dir for the users of the machine: none but the caller
KnownUsers == {}

\* os.path.expanduser
Expanduser(path) ==
    IF ~StartsWith(path, "~") THEN path
    ELSE LET f == Find(path, SEP, 2)
             i == IF f = 0 THEN Len(path) + 1 ELSE f
         IN IF i # 2 /\ SubSeq(path, 2, i - 1) \notin KnownUsers THEN path
            ELSE LET out == RStrip(Home, SEP) \o SubSeq(path, i, Len(path))
                 IN IF out = Empty THEN Root ELSE out

\* the name the kernel resolves a path to (the filesystem has no symbolic
\* links, and "//" at the start means "/")
Canon(p, cwd) ==
    LET n == Abspath(p, cwd)
    IN IF InitialSlashes(n) = 2 THEN Tail(n) ELSE n

\* os.path.isfile: stat() succeeds and finds a regular file
isfile(p, cwd) == p # Empty /\ ~EndsWith(p, SEP) /\ Canon(p, cwd) \in Files

\* os.chdir(p) succeeds: p names an existing directory
isdir(p, cwd) == p # Empty /\ Canon(p, cwd) \in Dirs

(***************************************************************************)
(* fromdir                                                                 *)
(***************************************************************************)
\* _sibpath(path, sibling)
sibpath(path, sibling, cwd) == Join2(Dirname(Abspath(path, cwd)), sibling)

\* line 188 with the home expansion of line 187 left out
JoinedPathNoExpand(path, cur, cwd) == Abspath(Join2(path, cur), cwd)

\* line 188: the accumulated path joined with the next fragment
JoinedPath(path, cur, cwd) == Abspath(Join2(path, Expanduser(cur)), cwd)

\* one turn of the loop of fromdir.__init__: the new self.path
InitFragment(path, cur, cwd) ==
    LET joined == JoinedPath(path, cur, cwd)
    IN IF isfile(joined, cwd) THEN sibpath(joined, Empty, cwd) ELSE joined

\* fromdir.__init__: self.path after the first n of the fragments
RECURSIVE InitUpTo(_, _, _)
InitUpTo(paths, n, cwd) ==
    IF n = 0 THEN Empty
    ELSE InitFragment(InitUpTo(paths, n - 1, cwd), paths[n], cwd)

\* fromdir.__init__ with the file test made once, after the loop
RECURSIVE JoinedUpTo(_, _, _)
JoinedUpTo(paths, n, cwd) ==
    IF n = 0 THEN Empty
    ELSE JoinedPath(JoinedUpTo(paths, n - 1, cwd), paths[n], cwd)

InitPathCheckAtEnd(paths, cwd) ==
    LET joined == JoinedUpTo(paths, Len(paths), cwd)
    IN IF isfile(joined, cwd) THEN sibpath(joined, Empty, cwd) ELSE joined

\* fromdir.__init__: the stored self.path
InitPath(paths, cwd) == InitUpTo(paths, Len(paths), cwd)

\* fromdir.__call__
CallResult(path, args) == Join(path, args)

(***************************************************************************)
(* The state: the process working directory, the resolver instances, the   *)
(* "with" blocks in progress, and the Documentation object in hand.        *)
(***************************************************************************)
VARIABLES
    cwd,      \* os.getcwd(): the process working directory
    res,      \* the fromdir instances: made, path (self.path), hasOrig and origDir
              \* (self._origDir); and, kept for the record, the fragments given
              \* (paths), the path first stored (path0), whether __enter__ ever ran
    stack,    \* the "with" blocks in progress, innermost last
    last,     \* the operation that ran last, with its inputs and its result
    doc,      \* the Documentation object in hand: raw, its string type, decode
    view,     \* the value the last read of a view returned
    lastDoc   \* the Documentation operation that ran last

dirVars == <<cwd, res, stack, last>>
docVars == <<doc, view, lastDoc>>
vars == <<cwd, res, stack, last, doc, view, lastDoc>>

\* the resolver instances of the program
Resolvers == {1, 2}

NoResolver ==
    [made |-> FALSE, path |-> Empty, hasOrig |-> FALSE, origDir |-> Empty,
     path0 |-> Empty, entered |-> FALSE, paths |-> <<>>]

NoOp ==
    [op |-> "none", r |-> 0, args |-> <<>>,
     result |-> Empty, before |-> Empty, from |-> Empty, single |-> FALSE, exc |-> FALSE,
     ok |-> TRUE]

\* fromdir.__init__: the new instance
NewResolver(paths, dir) ==
    LET p == InitPath(paths, dir)
    IN [made |-> TRUE, path |-> p, hasOrig |-> FALSE, origDir |-> Empty,
        path0 |-> p, entered |-> FALSE, paths |-> paths]

\* fromdir.__enter__: the instance after it (line 198 runs before chdir can fail)
EnterSelf(self, dir) ==
    [self EXCEPT !.hasOrig = TRUE, !.origDir = dir]

\* fromdir.__enter__: os.chdir(self.path) succeeds
EnterOk(self, dir) == isdir(self.path, dir)

\* fromdir.__enter__: the working directory after it
EnterCwd(self, dir) == IF EnterOk(self, dir) THEN Canon(self.path, dir) ELSE dir

\* fromdir.__exit__ that deletes self._origDir
ExitSelfClears(self) == [self EXCEPT !.hasOrig = FALSE, !.origDir = Empty]

\* fromdir.__exit__: the instance after it
ExitSelf(self) == self

\* fromdir.__exit__ without the chdir
ExitCwdStays(self, dir) == dir

\* fromdir.__exit__: the working directory after it
ExitCwd(self, dir) ==
    IF self.hasOrig /\ isdir(self.origDir, dir) THEN Canon(self.origDir, dir) ELSE dir

Construct(r, paths) ==
    /\ ~res[r].made
    /\ res' = [res EXCEPT ![r] = NewResolver(paths, cwd)]
    /\ last' = [NoOp EXCEPT !.op = "init", !.r = r]
    /\ UNCHANGED <<cwd, stack>>
    /\ UNCHANGED docVars

\* fromdir.__call__ that changes to the base directory before joining
CallChangesDir(r, args) ==
    /\ res[r].made
    /\ cwd' = EnterCwd(res[r], cwd)
    /\ last' = [NoOp EXCEPT !.op = "call", !.r = r, !.args = args,
                            !.result = CallResult(res[r].path, args)]
    /\ UNCHANGED <<res, stack>>
    /\ UNCHANGED docVars

\* fromdir.__call__
Call(r, args) ==
    /\ res[r].made
    /\ last' = [NoOp EXCEPT !.op = "call", !.r = r, !.args = args,
                            !.result = CallResult(res[r].path, args)]
    /\ UNCHANGED <<cwd, res, stack>>
    /\ UNCHANGED docVars

\* "with r:" is reached: __enter__ runs, and the block is entered unless it raised
Enter(r) ==
    /\ res[r].made
    /\ Len(stack) < MaxDepth
    /\ res' = [res EXCEPT ![r] = [EnterSelf(res[r], cwd) EXCEPT !.entered = TRUE]]
    /\ cwd' = EnterCwd(res[r], cwd)
    /\ stack' = IF EnterOk(res[r], cwd)
                THEN Append([i \in 1..Len(stack) |-> [stack[i] EXCEPT !.nested = TRUE]],
                            [r |-> r, before |-> cwd, nested |-> FALSE])
                ELSE stack
    /\ last' = [NoOp EXCEPT !.op = "enter", !.r = r, !.before = cwd,
                            !.ok = EnterOk(res[r], cwd)]
    /\ UNCHANGED docVars

\* the innermost "with" block ends, normally or (exc) by an error: __exit__ runs
Exit(exc) ==
    /\ stack # <<>>
    /\ LET top == stack[Len(stack)]
       IN /\ res' = [res EXCEPT ![top.r] = ExitSelf(res[top.r])]
          /\ cwd' = ExitCwd(res[top.r], cwd)
          /\ last' = [NoOp EXCEPT !.op = "exit", !.r = top.r, !.before = top.before,
                                  !.from = cwd,
                                  !.single = (Len(stack) = 1 /\ ~top.nested),
                                  !.exc = exc]
    /\ stack' = SubSeq(stack, 1, Len(stack) - 1)
    /\ UNCHANGED docVars

\* the program (inside a block or outside) changes the working directory itself
Chdir(d) ==
    /\ cwd # d
    /\ cwd' = d
    /\ last' = [NoOp EXCEPT !.op = "chdir"]
    /\ UNCHANGED <<res, stack>>
    /\ UNCHANGED docVars

InitDir ==
    /\ cwd \in Dirs
    /\ res = [r \in Resolvers |-> NoResolver]
    /\ stack = <<>>
    /\ last = NoOp

\* a program that builds one resolver and joins paths with it, in the working
\* directory it was started in
NextInit ==
    \/ \E paths \in SeqsUpTo(Fragments, MaxFrags) : Construct(1, paths)
    \/ \E args \in ArgTuples : Call(1, args)

\* a program that builds resolvers and uses them as "with" scopes
NextDir ==
    \/ \E r \in Resolvers, paths \in FewPaths : Construct(r, paths)
    \/ \E r \in Resolvers, args \in FewArgs : Call(r, args)
    \/ \E r \in Resolvers : Enter(r)
    \/ \E exc \in BOOLEAN : Exit(exc)
    \/ \E d \in Dirs : Chdir(d)

(***************************************************************************)
(* Documentation                                                           *)
(***************************************************************************)
\* the characters of a docstring: a letter, a space, a newline, a vertical tab
Chars == {"a", SP, NL, VT}

Texts == SeqsUpTo(Chars, MaxRaw)

\* what string.lstrip strips (a line holds no newline)
Whitespace == {SP, VT}

RECURSIVE LStripWs(_)
LStripWs(s) ==
    IF s # Empty /\ s[1] \in Whitespace THEN LStripWs(Tail(s)) ELSE s

\* s.replace(c, by) for a one-character c
RECURSIVE ReplaceChar(_, _, _)
ReplaceChar(s, c, by) ==
    IF s = Empty THEN Empty
    ELSE (IF s[1] = c THEN by ELSE <<s[1]>>) \o ReplaceChar(Tail(s), c, by)

\* re.sub(r'\n\n', '\v', s): the leftmost non-overlapping pairs of newlines
RECURSIVE SubParagraphs(_)
SubParagraphs(s) ==
    IF s = Empty THEN Empty
    ELSE IF Len(s) >= 2 /\ s[1] = NL /\ s[2] = NL
         THEN <<VT>> \o SubParagraphs(SubSeq(s, 3, Len(s)))
    ELSE <<s[1]>> \o SubParagraphs(Tail(s))

\* Documentation.first
First(raw) == Split(raw, NL)[1]

\* Documentation.full
Full(raw) ==
    ReplaceChar(ReplaceChar(SubParagraphs(raw), NL, <<SP>>), VT, <<NL, NL>>)

RECURSIVE DropLeadingEmpty(_)
DropLeadingEmpty(lines) ==
    IF lines # <<>> /\ lines[1] = Empty THEN DropLeadingEmpty(Tail(lines)) ELSE lines

RECURSIVE DropTrailingEmpty(_)
DropTrailingEmpty(lines) ==
    IF lines # <<>> /\ lines[Len(lines)] = Empty
    THEN DropTrailingEmpty(SubSeq(lines, 1, Len(lines) - 1))
    ELSE lines

\* inspect.cleandoc (the text holds no tab to expand)
cleandoc(s) ==
    LET lines == Split(s, NL)
        indents == {Len(lines[i]) - Len(LStripWs(lines[i])) :
                        i \in {j \in 2..Len(lines) : LStripWs(lines[j]) # Empty}}
        hasMargin == indents # {}
        margin == IF hasMargin THEN CHOOSE m \in indents : \A n \in indents : m <= n
                  ELSE 0
        cut == [i \in 1..Len(lines) |->
                   IF i = 1 THEN LStripWs(lines[1])
                   ELSE IF hasMargin THEN SubSeq(lines[i], margin + 1, Len(lines[i]))
                   ELSE lines[i]]
    IN JoinWith(DropLeadingEmpty(DropTrailingEmpty(cut)), NL)

\* the values a caller gives for decode
DecodeArgs == {"None", "False", "True"}

Truthy(decode) == decode = "True"

\* obj.__doc__: absent (None), or a byte string or a unicode string
DocAttrs ==
    {[absent |-> TRUE, text |-> Empty, uni |-> FALSE]}
        \cup {[absent |-> FALSE, text |-> t, uni |-> u] : t \in Texts, u \in BOOLEAN}

\* Documentation.fromString: the raw text, its type, and whether ftfy ran;
\* fixedOut is what ftfy.fix_encoding(out.decode('utf-8')) returns
FromStringResult(s, uni, decode, fixedOut) ==
    LET out == cleandoc(s)
    IN IF ~Truthy(decode) \/ uni
       THEN [raw |-> out, uni |-> uni, fixed |-> FALSE]
       ELSE [raw |-> fixedOut, uni |-> TRUE, fixed |-> TRUE]

\* Documentation.fromObject without the test for an absent docstring, None
\* read as the empty string
FromObjectNoAbsentCase(o, decode, fixedOut) ==
    FromStringResult(o.text, o.uni, decode, fixedOut)

\* Documentation.fromObject
FromObjectResult(o, decode, fixedOut) ==
    IF o.absent
    THEN [raw |-> Empty, uni |-> Truthy(decode), fixed |-> FALSE]
    ELSE FromStringResult(o.text, o.uni, decode, fixedOut)

NoDoc ==
    [made |-> FALSE, raw |-> Empty, uni |-> FALSE, decode |-> "False",
     absent |-> FALSE, asked |-> "None", fixed |-> FALSE]

NoDocOp == [op |-> "none"]

\* the attrs constructor: cls(raw) leaves decode at its default, False; with it
\* are kept how the object came to be: from an absent docstring or not, the
\* decode flag asked for, and whether ftfy ran
MakeDoc(r, absent, asked) ==
    [made |-> TRUE, raw |-> r.raw, uni |-> r.uni, decode |-> "False",
     absent |-> absent, asked |-> asked, fixed |-> r.fixed]

\* Documentation(raw, decode) called directly
New(raw, uni, decode) ==
    /\ ~doc.made
    /\ doc' = [NoDoc EXCEPT !.made = TRUE, !.raw = raw, !.uni = uni, !.decode = decode]
    /\ lastDoc' = [NoDocOp EXCEPT !.op = "new"]
    /\ UNCHANGED view
    /\ UNCHANGED dirVars

FromString(s, uni, decode) ==
    /\ ~doc.made
    /\ \E fixedOut \in (IF ~Truthy(decode) \/ uni THEN {Empty} ELSE Texts) :
          LET r == FromStringResult(s, uni, decode, fixedOut)
          IN /\ doc' = MakeDoc(r, FALSE, decode)
             /\ lastDoc' = [NoDocOp EXCEPT !.op = "fromString"]
    /\ UNCHANGED view
    /\ UNCHANGED dirVars

FromObject(o, decode) ==
    /\ ~doc.made
    /\ \E fixedOut \in (IF o.absent \/ ~Truthy(decode) \/ o.uni THEN {Empty} ELSE Texts) :
          LET r == FromObjectResult(o, decode, fixedOut)
          IN /\ doc' = MakeDoc(r, o.absent, decode)
             /\ lastDoc' = [NoDocOp EXCEPT !.op = "fromObject"]
    /\ UNCHANGED view
    /\ UNCHANGED dirVars

\* doc(obj): Documentation.fromObject(obj).first
DocOf(o) ==
    /\ ~doc.made
    /\ LET r == FromObjectResult(o, "None", Empty)
       IN /\ doc' = MakeDoc(r, o.absent, "None")
          /\ view' = First(r.raw)
          /\ lastDoc' = [NoDocOp EXCEPT !.op = "doc"]
    /\ UNCHANGED dirVars

ReadFirst ==
    /\ doc.made
    /\ view' = First(doc.raw)
    /\ lastDoc' = [NoDocOp EXCEPT !.op = "first"]
    /\ UNCHANGED doc
    /\ UNCHANGED dirVars

ReadFull ==
    /\ doc.made
    /\ view' = Full(doc.raw)
    /\ lastDoc' = [NoDocOp EXCEPT !.op = "full"]
    /\ UNCHANGED doc
    /\ UNCHANGED dirVars

InitDoc ==
    /\ doc = NoDoc
    /\ view = Empty
    /\ lastDoc = NoDocOp

NextDoc ==
    \/ \E raw \in Texts, uni \in BOOLEAN, decode \in DecodeArgs : New(raw, uni, decode)
    \/ \E s \in Texts, uni \in BOOLEAN, decode \in DecodeArgs : FromString(s, uni, decode)
    \/ \E o \in DocAttrs, decode \in DecodeArgs : FromObject(o, decode)
    \/ \E o \in DocAttrs : DocOf(o)
    \/ ReadFirst
    \/ ReadFull

(***************************************************************************)
(* The specifications.                                                     *)
(***************************************************************************)
Init == InitDir /\ InitDoc

Next == NextInit \/ NextDir \/ NextDoc

\* the whole program
Spec == Init /\ [][Next]_vars

\* the program constructing and calling one resolver
SpecInit == Init /\ [][NextInit]_vars

\* the program using resolvers as scopes
SpecDir == Init /\ [][NextDir]_vars

\* the program using Documentation only
SpecDoc == Init /\ [][NextDoc]_vars

(***************************************************************************)
(* The properties.  Under SpecInit the working directory never changes, so *)
(* cwd is also the working directory the resolver was constructed in.      *)
(***************************************************************************)
\* the path that joining fragment n names, when every file named so far was
\* replaced by its containing directory
RECURSIVE FoldedUpTo(_, _, _)
NamedAt(paths, n, dir) ==
    Abspath(Join2(FoldedUpTo(paths, n - 1, dir), Expanduser(paths[n])), dir)

FoldedUpTo(paths, n, dir) ==
    IF n = 0 THEN Empty
    ELSE LET j == NamedAt(paths, n, dir)
         IN IF isfile(j, dir) THEN Dirname(j) ELSE j

\* no fragment of the sequence names an existing file
NoFileNamed(paths, dir) ==
    \A i \in 1..Len(paths) : ~isfile(NamedAt(paths, i, dir), dir)

\* every fragment of the sequence names an existing file
AllFilesNamed(paths, dir) ==
    \A i \in 1..Len(paths) : isfile(NamedAt(paths, i, dir), dir)

\* path f is path p or a path above it
IsPathPrefix(f, p) ==
    \/ p = f
    \/ Len(p) > Len(f) /\ SubSeq(p, 1, Len(f)) = f /\ p[Len(f) + 1] = SEP

\* resolver r has a "with" block in progress
Active(r) == \E i \in 1..Len(stack) : stack[i].r = r

\* C1: when a single, non-nested scope of a resolver ends (its entry having
\* succeeded), normally or by an error, the working directory is again the one
\* that was current just before __enter__, whatever the block changed it to.
C1_SingleScopeRestoresCwd ==
    (last.op = "exit" /\ last.single) => cwd = last.before

\* a single scope that ended by an error, its block having changed to a
\* directory that is neither the resolver's nor the original one
C1_Witness ==
    /\ last.op = "exit" /\ last.single /\ last.exc
    /\ last.from # last.before
    /\ last.from # Canon(res[last.r].path, cwd)
    /\ cwd = last.before

\* C2: a resolver built from one fragment naming an existing regular file,
\* called with no arguments, returns the file's containing directory: the
\* value a resolver built from that directory's path returns, and never the
\* file path.
C2_FileResolverReturnsItsDirectory ==
    (/\ last.op = "call" /\ last.args = <<>>
     /\ Len(res[last.r].paths) = 1
     /\ isfile(NamedAt(res[last.r].paths, 1, cwd), cwd))
    => LET file == NamedAt(res[last.r].paths, 1, cwd)
       IN /\ last.result = CallResult(InitPath(<<Dirname(file)>>, cwd), <<>>)
          /\ last.result # file

\* C3: with no fragment naming an existing file, the stored base path of a
\* non-empty fragment sequence is the absolute path of the one join of all the
\* home-expanded fragments.
C3_BasePathIsJoinOfFragments ==
    \A r \in Resolvers :
        LET ps == res[r].paths
        IN (res[r].made /\ Len(ps) >= 1 /\ NoFileNamed(ps, cwd))
           => res[r].path =
                 Abspath(Join(Expanduser(ps[1]),
                              [i \in 1..(Len(ps) - 1) |-> Expanduser(ps[i + 1])]),
                         cwd)

\* a resolver built from "~" and ".." (two fragments, neither naming a file)
C3_Witness ==
    /\ res[1].made
    /\ Len(res[1].paths) >= 2
    /\ res[1].paths[1] = <<"~">>
    /\ res[1].paths[2] = DotDot
    /\ NoFileNamed(res[1].paths, cwd)
    /\ res[1].path = Root

\* C4: the stored base path of a resolver is always an absolute path with no
\* trailing separator (the root itself apart).
C4_BasePathAbsoluteNoTrailingSeparator ==
    \A r \in Resolvers :
        res[r].made
        => /\ StartsWith(res[r].path, SEP)
           /\ (EndsWith(res[r].path, SEP) => AllChar(res[r].path, SEP))

\* C5 as stated: _origDir is present exactly while a scope of the resolver is
\* in progress.
C5_OrigDirPresentIffActive ==
    \A r \in Resolvers : res[r].made => (res[r].hasOrig <=> Active(r))

\* C5 as amended: _origDir is absent before the first __enter__ and present
\* ever after it: during the scope, after __exit__, and after an __enter__
\* whose chdir failed.
C5_OrigDirPresentOnceEntered ==
    /\ \A r \in Resolvers :
          res[r].made => /\ res[r].hasOrig <=> res[r].entered
                         /\ Active(r) => res[r].hasOrig
    /\ (last.op = "enter" /\ ~last.ok) => res[last.r].hasOrig

\* a resolver whose scope has ended and which still holds _origDir
C5_Witness ==
    last.op = "exit" /\ ~Active(last.r) /\ res[last.r].hasOrig

\* C6: a Documentation made from an object without a docstring has the empty
\* raw text, empty first and full views, and ftfy was not run, whatever the
\* decode flag.
C6_AbsentDocIsEmpty ==
    (doc.made /\ doc.absent)
    => /\ doc.raw = Empty
       /\ First(doc.raw) = Empty
       /\ Full(doc.raw) = Empty
       /\ ~doc.fixed
       /\ lastDoc.op \in {"first", "full", "doc"} => view = Empty

\* the full view read from a Documentation made, with decode asked for, from an
\* object without a docstring
C6_Witness ==
    doc.made /\ doc.absent /\ doc.asked = "True" /\ lastDoc.op = "full"

\* the raw text with every pair of newlines kept and every other newline
\* replaced by one space
RECURSIVE FoldLines(_)
FoldLines(s) ==
    IF s = Empty THEN Empty
    ELSE IF Len(s) >= 2 /\ s[1] = NL /\ s[2] = NL
         THEN <<NL, NL>> \o FoldLines(SubSeq(s, 3, Len(s)))
    ELSE <<(IF s[1] = NL THEN SP ELSE s[1])>> \o FoldLines(Tail(s))

\* C7: the full view of any raw text is the text with each paragraph break
\* kept as two newlines and every other newline replaced by one space.
C7_FullFoldsLines ==
    lastDoc.op = "full" => view = FoldLines(doc.raw)

\* C8: a call changes neither the base path, nor _origDir, nor the working
\* directory; no operation changes the base path of a constructed resolver; so
\* a call returns what it would have returned right after construction.
C8_CallHasNoSideEffects ==
    [][/\ \A r \in Resolvers : res[r].made => res'[r].path = res[r].path
       /\ last'.op = "call"
          => /\ cwd' = cwd
             /\ res' = res
             /\ stack' = stack
             /\ last'.result = CallResult(res[last'.r].path0, last'.args)]_vars

\* a call made inside a scope of the resolver
C8_Witness ==
    last.op = "call" /\ Active(last.r) /\ res[last.r].hasOrig /\ last.args # <<>>

\* C9: the file test is made after every fragment: the base path is what
\* results from replacing, fragment by fragment, each file named by its
\* containing directory; when every one of several fragments names a file, the
\* base path is the directory of the last file, and no file's path is in it.
C9_FileTestAfterEveryFragment ==
    \A r \in Resolvers :
        LET ps == res[r].paths
            n == Len(ps)
        IN (res[r].made /\ n >= 1)
           => /\ Normpath(res[r].path) = FoldedUpTo(ps, n, cwd)
              /\ (n >= 2 /\ AllFilesNamed(ps, cwd))
                 => /\ Normpath(res[r].path) = Dirname(NamedAt(ps, n, cwd))
                    /\ \A i \in 1..n : ~IsPathPrefix(NamedAt(ps, i, cwd), res[r].path)

\* a resolver built from two fragments naming two files of two directories
C9_Witness ==
    /\ res[1].made
    /\ Len(res[1].paths) >= 2
    /\ AllFilesNamed(res[1].paths, cwd)
    /\ NamedAt(res[1].paths, 1, cwd) = FileF
    /\ NamedAt(res[1].paths, 2, cwd) = FileAF
    /\ Normpath(res[1].path) = DirA

\* C10: every __exit__ of a well-nested sequence of scopes, the same resolver
\* entered again while active included, restores the working directory that was
\* current just before the matching __enter__.
C10_EveryExitRestoresCwd ==
    last.op = "exit" => cwd = last.before

====
